---- MODULE Spec2Model ----
(***************************************************************************)
(* Model of the quiz Session state machine (package quiz).                 *)
(*                                                                         *)
(* Strings are sequences of Unicode code points.  Slices indexed from 0 in *)
(* the source (attempted, completed, results, Questions) are functions on  *)
(* 0..n-1; queue is a sequence whose first element is the source's         *)
(* queue[0].  Every public Session method takes s.mu for its whole body,   *)
(* so each method is one atomic action.                                    *)
(***************************************************************************)
EXTENDS Integers, Sequences, FiniteSets, TLC

\* ------------------------------------------------------------------ bounds
MaxQuestions == 3

\* concurrent callers of one Session
NumThreads == 2

\* incorrect answers counted in one run
MaxWrong == 2

\* HTTP clients with a request in flight at the same time
Clients == {1, 2}

\* the client whose responses are kept for inspection
Observed == {1}

\* identities of live Session objects: each request in flight points to at most
\* one, and a request that resets points to none while it builds the new one
SessionIds == 1..Cardinality(Clients)

Threads == 1..NumThreads

\* answer key of question i: "A" for even i, "B" for odd i
KeyAt(i) == IF i % 2 = 0 THEN <<65>> ELSE <<66>>

QuestionsOf(n) == [i \in 0..(n - 1) |-> KeyAt(i)]

\* raw answers submitted by a front end: "", "a", " B "
Inputs == { <<>>, <<97>>, <<32, 66, 32>> }

VARIABLES
    Questions,       \* Session.Questions: index -> answer key
    attempted,       \* Session.attempted
    completed,       \* Session.completed
    results,         \* Session.results
    queue,           \* Session.queue
    completedCount,  \* Session.completedCount
    attemptedCount,  \* Session.attemptedCount
    ret,             \* the call just made and what it returned
    firstTry,        \* history: grade of the first Answer made on each index
    peek,            \* history: index last returned by Current since the last Answer
    mu,              \* Session.mu: 0 when free, else the caller holding it
    pc,              \* per concurrent caller: where it is inside a Session method
    loc,             \* per concurrent caller: the method's arguments and locals
    cpc,             \* runCLI: position in the quiz loop
    hpc,             \* interrupt handler goroutine: position
    hAnswered,       \* interrupt handler: answered, as returned by Score()
    summary,         \* what printSummary printed
    calls,           \* history: successful Answer calls made so far
    wrongs,          \* history: how many of them were graded incorrect
    due,             \* history: per queued index, the successful Answer calls still
                     \* to come before it is first in line, counted from its place
    srvSession,      \* Server.session: the Session object the server points to
    heap,            \* the Session objects the server has constructed, by identity
    req,             \* per HTTP client: the request in progress, its locals and response
    resetTo,         \* history: the Session the last reset installed, while no call
                     \* has changed it; 0 otherwise
    watched          \* the clients whose handlers' notes toward the response are kept

sess == <<Questions, attempted, completed, results, queue, completedCount, attemptedCount>>
lockv == <<mu, pc, loc>>
cliv == <<cpc, hpc, hAnswered, summary>>
webv == <<srvSession, heap, req, resetTo, watched>>
aux == <<calls, wrongs, due, webv>>
front == <<lockv, cliv, aux>>
vars == <<Questions, attempted, completed, results, queue, completedCount, attemptedCount,
          ret, firstTry, peek, mu, pc, loc, cpc, hpc, hAnswered, summary, calls, wrongs,
          due, srvSession, heap, req, resetTo, watched>>

\* ------------------------------------------------------- strings and runes
IsSpace(c) == c \in {9, 10, 11, 12, 13, 32, 133, 160}

RECURSIVE TrimLeft(_)
TrimLeft(s) == IF s # <<>> /\ IsSpace(Head(s)) THEN TrimLeft(Tail(s)) ELSE s

RECURSIVE TrimRight(_)
TrimRight(s) ==
    IF s # <<>> /\ IsSpace(s[Len(s)]) THEN TrimRight(SubSeq(s, 1, Len(s) - 1)) ELSE s

TrimSpace(s) == TrimRight(TrimLeft(s))

ToUpperRune(c) ==
    IF c \in 97..122 THEN c - 32
    ELSE IF c \in (224..254) \ {247} THEN c - 32
    ELSE c

EqualFold(s, t) ==
    /\ Len(s) = Len(t)
    /\ \A i \in 1..Len(s) : ToUpperRune(s[i]) = ToUpperRune(t[i])

\* first byte of the UTF-8 encoding of code point c
Utf8FirstByte(c) ==
    IF c < 128 THEN c
    ELSE IF c < 2048 THEN 192 + (c \div 64)
    ELSE IF c < 65536 THEN 224 + (c \div 4096)
    ELSE 240 + (c \div 262144)

normalize(ans) ==
    LET t == TrimSpace(ans)
    IN  IF t = <<>> THEN 0 ELSE Utf8FirstByte(ToUpperRune(t[1]))

\* ------------------------------------------------------------------ values
ZeroResult == [UserAnswer |-> <<>>, Correct |-> FALSE]

Indices == DOMAIN Questions

Range(q) == { q[k] : k \in 1..Len(q) }

Perms(n) ==
    { p \in [1..n -> 0..(n - 1)] : \A a, b \in 1..n : a # b => p[a] # p[b] }

Ret(op, res, finished, err, idx, ok, a, b, list) ==
    [op |-> op, res |-> res, finished |-> finished, err |-> err,
     idx |-> idx, ok |-> ok, a |-> a, b |-> b, list |-> list, arg |-> <<>>]

NoPeek == [idx |-> -2, moved |-> FALSE]

\* the Session fields as one value
SessRec ==
    [Questions |-> Questions, attempted |-> attempted, completed |-> completed,
     results |-> results, queue |-> queue,
     completedCount |-> completedCount, attemptedCount |-> attemptedCount]

NoSnap ==
    [Questions |-> <<>>, attempted |-> <<>>, completed |-> <<>>,
     results |-> <<>>, queue |-> <<>>, completedCount |-> 0, attemptedCount |-> 0]

NoLoc ==
    [op |-> "", raw |-> <<>>, target |-> -1, idx |-> -1, res |-> ZeroResult, snap |-> NoSnap]

NoSummary == [answered |-> -1, score |-> -1, rows |-> {}, lines |-> <<>>]

NoTerm == [empty |-> TRUE, numeric |-> FALSE, num |-> 0, hits |-> {}]

\* a response before its handler has set any field
NoOut ==
    [status |-> 200, finished |-> FALSE, question |-> -1, res |-> ZeroResult, graded |-> -1,
     after |-> <<-1, -1>>, completed |-> -1, attempted |-> -1,
     found |-> FALSE, index |-> 0, score |-> -1, answered |-> -1, rows |-> <<>>]

NoReq ==
    [kind |-> "", at |-> "idle", holds |-> "", s |-> 0, q |-> -1,
     same |-> TRUE, out |-> NoOut]

\* ------------------------------------------------------------- NewSession
\* variant: the queue field is left unset
NewSessionNoQueue(qs, perm) ==
    /\ Questions = qs
    /\ attempted = [i \in DOMAIN qs |-> FALSE]
    /\ completed = [i \in DOMAIN qs |-> FALSE]
    /\ results = [i \in DOMAIN qs |-> ZeroResult]
    /\ queue = <<>>
    /\ completedCount = 0
    /\ attemptedCount = 0

NewSession(qs, perm) ==
    /\ Questions = qs
    /\ attempted = [i \in DOMAIN qs |-> FALSE]
    /\ completed = [i \in DOMAIN qs |-> FALSE]
    /\ results = [i \in DOMAIN qs |-> ZeroResult]
    /\ queue = perm
    /\ completedCount = 0
    /\ attemptedCount = 0

\* everything outside the Session before the first call
InitFront ==
    /\ ret = Ret("NewSession", ZeroResult, FALSE, "", -1, FALSE, 0, 0, <<>>)
    /\ firstTry = [i \in Indices |-> "none"]
    /\ peek = NoPeek
    /\ mu = 0
    /\ pc = [t \in Threads |-> "idle"]
    /\ loc = [t \in Threads |-> NoLoc]
    /\ cpc = [at |-> "loop", answered |-> 0]
    /\ hpc = "armed"
    /\ hAnswered = 0
    /\ summary = NoSummary
    /\ calls = 0
    /\ wrongs = 0

\* no server is running
WebOff ==
    /\ srvSession = 0
    /\ heap = [k \in SessionIds |-> NoSnap]
    /\ req = [c \in Clients |-> NoReq]
    /\ resetTo = 0
    /\ watched = {}

Init ==
    /\ \E n \in 0..MaxQuestions :
         \E perm \in Perms(n) : NewSession(QuestionsOf(n), perm)
    /\ InitFront
    /\ due = <<>>
    /\ WebOff

\* ---------------------------------------------------------------- Current
CurrentOk == Len(queue) # 0

\* variant: peeks at the back of the queue
CurrentIdxLast == IF Len(queue) = 0 THEN -1 ELSE queue[Len(queue)]

CurrentIdx == IF Len(queue) = 0 THEN -1 ELSE queue[1]

Current ==
    /\ ret' = Ret("Current", ZeroResult, FALSE, "", CurrentIdx, CurrentOk, 0, 0, <<>>)
    /\ UNCHANGED sess

\* ----------------------------------------------------------------- Answer
Grade(raw, key) == EqualFold(TrimSpace(raw), key)

UserAnswerOf(raw) ==
    LET ansRune == normalize(raw)
    IN  IF ansRune # 0 THEN <<ansRune>> ELSE <<>>

AttemptResult(raw, key) ==
    [UserAnswer |-> UserAnswerOf(raw), Correct |-> Grade(raw, key)]

\* variant: a correct answer completes the index only on a repeated attempt
AnswerCompletedOnRetry(idx, res) ==
    IF res.Correct /\ attempted[idx] /\ ~completed[idx]
    THEN [completed EXCEPT ![idx] = TRUE] ELSE completed

\* variant: the first answer completes the index whatever its grade
AnswerCompletedAnyGrade(idx, res) ==
    IF ~completed[idx] THEN [completed EXCEPT ![idx] = TRUE] ELSE completed

AnswerCompleted(idx, res) ==
    IF res.Correct /\ ~completed[idx] THEN [completed EXCEPT ![idx] = TRUE] ELSE completed

\* variant: completedCount is raised by every first completion check, whatever the grade
AnswerCompletedCountAnyGrade(idx, res) ==
    IF ~completed[idx] THEN completedCount + 1 ELSE completedCount

AnswerCompletedCount(idx, res) ==
    IF res.Correct /\ ~completed[idx] THEN completedCount + 1 ELSE completedCount

\* variant: the attempted flag is never set
AnswerAttemptedNever(idx) == attempted

\* variant: the attempted flag is flipped instead of set
AnswerAttemptedToggle(idx) == [attempted EXCEPT ![idx] = ~attempted[idx]]

AnswerAttempted(idx) ==
    IF ~attempted[idx] THEN [attempted EXCEPT ![idx] = TRUE] ELSE attempted

\* variant: every attempt overwrites the stored result
AnswerResultsOverwrite(idx, res) == [results EXCEPT ![idx] = res]

AnswerResults(idx, res) ==
    IF ~attempted[idx] THEN [results EXCEPT ![idx] = res] ELSE results

\* variant: attemptedCount is raised by repeated attempts only
AnswerAttemptedCountOnRepeat(idx) ==
    IF attempted[idx] THEN attemptedCount + 1 ELSE attemptedCount

\* variant: attemptedCount is raised by every attempt
AnswerAttemptedCountEveryAttempt(idx) == attemptedCount + 1

AnswerAttemptedCount(idx) ==
    IF ~attempted[idx] THEN attemptedCount + 1 ELSE attemptedCount

\* variant: a missed index is requeued right behind the next one
AnswerQueueRequeueSecond(idx, res) ==
    IF res.Correct THEN Tail(queue)
    ELSE IF Len(queue) = 1 THEN queue
    ELSE <<queue[2], idx>> \o SubSeq(queue, 3, Len(queue))

\* variant: the index is requeued whatever the grade
AnswerQueueAlwaysRequeue(idx, res) == Append(Tail(queue), idx)

\* variant: a missed index goes back to the front
AnswerQueueRetryNow(idx, res) ==
    IF ~res.Correct THEN <<idx>> \o Tail(queue) ELSE Tail(queue)

\* variant: a missed index is not requeued
AnswerQueueDropWrong(idx, res) == Tail(queue)

\* variant: the requeue test is inverted
AnswerQueueRequeueRight(idx, res) ==
    IF res.Correct THEN Append(Tail(queue), idx) ELSE Tail(queue)

\* variant: a correct answer drops the next index too (queue[2:] for queue[1:])
AnswerQueueSkipsNext(idx, res) ==
    IF ~res.Correct THEN Append(Tail(queue), idx) ELSE SubSeq(queue, 3, Len(queue))

AnswerQueue(idx, res) ==
    IF ~res.Correct THEN Append(Tail(queue), idx) ELSE Tail(queue)

\* variant: finished is computed before the requeue
AnswerFinishedBeforeRequeue(idx, res) == Len(Tail(queue)) = 0

AnswerFinished(idx, res) == Len(AnswerQueue(idx, res)) = 0

\* variant: a repeat attempt returns the stored first-attempt Result
AnswerReturnStored(idx, res) == IF attempted[idx] THEN results[idx] ELSE res

\* return res, finished, nil: the Result of the attempt just made
AnswerReturn(idx, res) == res

\* variant: the empty-queue return carries no error
AnswerDoneSilent ==
    /\ Len(queue) = 0
    /\ ret' = Ret("Answer", ZeroResult, TRUE, "", -1, FALSE, 0, 0, <<>>)
    /\ UNCHANGED sess

\* Answer on an empty queue: the error return, nothing written
AnswerDone ==
    /\ Len(queue) = 0
    /\ ret' = Ret("Answer", ZeroResult, TRUE, "quiz already completed", -1, FALSE, 0, 0, <<>>)
    /\ UNCHANGED sess

AnswerStep(raw) ==
    /\ Len(queue) # 0
    /\ LET idx == queue[1]
           res == AttemptResult(raw, Questions[idx])
       IN  /\ queue' = AnswerQueue(idx, res)
           /\ completed' = AnswerCompleted(idx, res)
           /\ completedCount' = AnswerCompletedCount(idx, res)
           /\ attempted' = AnswerAttempted(idx)
           /\ results' = AnswerResults(idx, res)
           /\ attemptedCount' = AnswerAttemptedCount(idx)
           \* ret keeps the raw answer of the call in arg
           /\ ret' = [Ret("Answer", AnswerReturn(idx, res), AnswerFinished(idx, res), "",
                          idx, FALSE, 0, 0, <<>>) EXCEPT !.arg = raw]
    /\ UNCHANGED Questions

Answer(raw) == AnswerDone \/ AnswerStep(raw)

\* ----------------------------------------------------------- BringToFront
\* position of the first occurrence of target in q, counted from 0; -1 if absent
IndexOf(q, target) ==
    IF target \in Range(q)
    THEN (CHOOSE k \in 1..Len(q) : q[k] = target /\ \A j \in 1..(k - 1) : q[j] # target) - 1
    ELSE -1

\* variant: the old occurrence is not removed
MoveToFrontKeepOld(q, target) ==
    LET pos == IndexOf(q, target)
    IN  IF pos = 0 THEN q ELSE <<target>> \o q

\* variant: the target is removed but not reinserted
MoveToFrontDrop(q, target) ==
    LET pos == IndexOf(q, target)
    IN  IF pos = 0 THEN q
        ELSE IF pos = -1 THEN <<target>> \o q
        ELSE SubSeq(q, 1, pos) \o SubSeq(q, pos + 2, Len(q))

\* variant: the target goes to the back instead of the front
MoveToFrontToBack(q, target) ==
    LET pos == IndexOf(q, target)
    IN  IF pos = 0 THEN q
        ELSE IF pos = -1 THEN <<target>> \o q
        ELSE (SubSeq(q, 1, pos) \o SubSeq(q, pos + 2, Len(q))) \o <<target>>

\* variant: the target changes places with the front element
MoveToFrontSwap(q, target) ==
    LET pos == IndexOf(q, target)
    IN  IF pos = 0 THEN q
        ELSE IF pos = -1 THEN <<target>> \o q
        ELSE [q EXCEPT ![1] = target, ![pos + 1] = q[1]]

\* variant: the second slice starts one element too late
MoveToFrontOffByOne(q, target) ==
    LET pos == IndexOf(q, target)
    IN  IF pos = 0 THEN q
        ELSE IF pos = -1 THEN <<target>> \o q
        ELSE <<target>> \o (SubSeq(q, 1, pos) \o SubSeq(q, pos + 3, Len(q)))

MoveToFront(q, target) ==
    LET pos == IndexOf(q, target)
    IN  IF pos = 0 THEN q
        ELSE IF pos = -1 THEN <<target>> \o q
        ELSE <<target>> \o (SubSeq(q, 1, pos) \o SubSeq(q, pos + 2, Len(q)))

\* variant: the early return does not test completed[target]
BringToFrontSkipsIgnoreCompleted(target) ==
    target < 0 \/ target >= Cardinality(DOMAIN completed)

BringToFrontSkips(target) ==
    target < 0 \/ target >= Cardinality(DOMAIN completed) \/ completed[target]

BringToFront(target) ==
    /\ queue' = IF BringToFrontSkips(target) THEN queue ELSE MoveToFront(queue, target)
    \* BringToFront returns nothing; ret keeps the target, whether the call got past
    \* the early return (ok) and the position it found (a)
    /\ ret' = Ret("BringToFront", ZeroResult, FALSE, "", target, ~BringToFrontSkips(target),
                  IF BringToFrontSkips(target) THEN -1 ELSE IndexOf(queue, target), 0, <<>>)
    /\ UNCHANGED <<Questions, attempted, completed, results, completedCount, attemptedCount>>

\* ------------------------------------------------------ read-only queries
Progress ==
    /\ ret' = Ret("Progress", ZeroResult, FALSE, "", -1, FALSE,
                  completedCount, Cardinality(DOMAIN Questions), <<>>)
    /\ UNCHANGED sess

AttemptedCount ==
    /\ ret' = Ret("AttemptedCount", ZeroResult, FALSE, "", -1, FALSE, attemptedCount, 0, <<>>)
    /\ UNCHANGED sess

Results ==
    /\ ret' = Ret("Results", ZeroResult, FALSE, "", -1, FALSE, 0, 0, results)
    /\ UNCHANGED sess

\* variant: score counts the indices completed so far
ScoreValueByCompleted ==
    [score    |-> Cardinality({ i \in DOMAIN results : attempted[i] /\ completed[i] }),
     answered |-> Cardinality({ i \in DOMAIN results : attempted[i] })]

ScoreValue ==
    [score    |-> Cardinality({ i \in DOMAIN results : attempted[i] /\ results[i].Correct }),
     answered |-> Cardinality({ i \in DOMAIN results : attempted[i] })]

Score ==
    /\ ret' = Ret("Score", ZeroResult, FALSE, "", -1, FALSE,
                  ScoreValue.score, ScoreValue.answered, <<>>)
    /\ UNCHANGED sess

CompletedValue == Len(queue) = 0

Completed ==
    /\ ret' = Ret("Completed", ZeroResult, FALSE, "", -1, CompletedValue, 0, 0, <<>>)
    /\ UNCHANGED sess

\* ---------------------------------------------------------- specification
Targets == (-1)..MaxQuestions

\* history: the grade returned by the first successful Answer on each index
FirstTryAnswer ==
    firstTry' = IF Len(queue) # 0 /\ firstTry[queue[1]] = "none"
                THEN [firstTry EXCEPT ![queue[1]] = IF ret'.res.Correct THEN "right" ELSE "wrong"]
                ELSE firstTry

Next ==
    \/ \E raw \in Inputs : Answer(raw) /\ FirstTryAnswer /\ UNCHANGED <<peek, front>>
    \/ \E target \in Targets : BringToFront(target) /\ UNCHANGED <<firstTry, peek, front>>
    \/ Current /\ UNCHANGED <<firstTry, peek, front>>
    \/ Progress /\ UNCHANGED <<firstTry, peek, front>>
    \/ AttemptedCount /\ UNCHANGED <<firstTry, peek, front>>
    \/ Results /\ UNCHANGED <<firstTry, peek, front>>
    \/ Score /\ UNCHANGED <<firstTry, peek, front>>
    \/ Completed /\ UNCHANGED <<firstTry, peek, front>>

Spec == Init /\ [][Next]_vars

\* the same operations, with the history of Current calls recorded in peek
NextPeek ==
    \/ \E raw \in Inputs : Answer(raw) /\ FirstTryAnswer /\ peek' = NoPeek /\ UNCHANGED front
    \/ \E target \in Targets :
         /\ BringToFront(target)
         /\ peek' = IF peek = NoPeek THEN peek ELSE [peek EXCEPT !.moved = TRUE]
         /\ UNCHANGED <<firstTry, front>>
    \/ Current /\ peek' = [idx |-> ret'.idx, moved |-> FALSE] /\ UNCHANGED <<firstTry, front>>

SpecPeek == Init /\ [][NextPeek]_vars

AnyAnswer == \E raw \in Inputs : Answer(raw) /\ FirstTryAnswer /\ UNCHANGED <<peek, front>>

\* the operations that move the queue, with Answer called again and again
NextLive ==
    \/ AnyAnswer
    \/ \E target \in Targets : BringToFront(target) /\ UNCHANGED <<firstTry, peek, front>>
    \/ Current /\ UNCHANGED <<firstTry, peek, front>>

SpecLive == Init /\ [][NextLive]_vars /\ WF_vars(AnyAnswer)

\* history: successful Answer calls, and the incorrect ones among them
CountAnswer ==
    /\ calls' = IF Len(queue) # 0 THEN calls + 1 ELSE calls
    /\ wrongs' = IF Len(queue) # 0 /\ ~ret'.res.Correct THEN wrongs + 1 ELSE wrongs
    /\ wrongs' <= MaxWrong

\* the operations of a run from NewSession to the end, with the calls counted
NextCount ==
    \/ \E raw \in Inputs :
         Answer(raw) /\ FirstTryAnswer /\ CountAnswer /\ UNCHANGED <<peek, lockv, cliv, due, webv>>
    \/ \E target \in Targets : BringToFront(target) /\ UNCHANGED <<firstTry, peek, front>>
    \/ Progress /\ UNCHANGED <<firstTry, peek, front>>
    \/ Score /\ UNCHANGED <<firstTry, peek, front>>

SpecCount == Init /\ [][NextCount]_vars

\* history: a successful Answer brings every other queued index one call nearer;
\* an index it requeues starts again from the place it is put at
DueAnswer ==
    due' = IF Len(queue) = 0 THEN due
           ELSE [i \in Indices |->
                   IF i = queue[1]
                   THEN IF ret'.res.Correct THEN -1 ELSE IndexOf(queue', i)
                   ELSE IF due[i] > 0 THEN due[i] - 1 ELSE due[i]]

\* a new session, with every index due after as many calls as stand before it
InitFifo ==
    /\ \E n \in 0..MaxQuestions :
         \E perm \in Perms(n) : NewSession(QuestionsOf(n), perm)
    /\ InitFront
    /\ due = [i \in Indices |-> IndexOf(queue, i)]
    /\ WebOff

\* a run in which BringToFront is never called
NextFifo ==
    \/ \E raw \in Inputs :
         /\ Answer(raw) /\ FirstTryAnswer /\ DueAnswer
         /\ UNCHANGED <<peek, lockv, cliv, calls, wrongs, webv>>
    \/ Current /\ UNCHANGED <<firstTry, peek, front>>

SpecFifo == InitFifo /\ [][NextFifo]_vars

\* ------------------------------------------------ grading, on richer text
\* answer fields a question file can hold: "", "B", "BC", "b"
Keys == { <<>>, <<66>>, <<66, 67>>, <<98>> }

\* raw answers: "", " ", "b", " B ", "bc", "c", and the one-letter answer U+00E9
GradeInputs == { <<>>, <<32>>, <<98>>, <<32, 66, 32>>, <<98, 99>>, <<99>>, <<233>> }

\* a session over one or two questions whose answer fields are any of Keys
InitGrade ==
    /\ \E n \in 1..2 :
         \E qs \in [0..(n - 1) -> Keys] :
           \E perm \in Perms(n) : NewSession(qs, perm)
    /\ InitFront
    /\ due = <<>>
    /\ WebOff

NextGrade ==
    \/ \E raw \in GradeInputs : Answer(raw) /\ FirstTryAnswer /\ UNCHANGED <<peek, front>>
    \/ Results /\ UNCHANGED <<firstTry, peek, front>>

SpecGrade == InitGrade /\ [][NextGrade]_vars

\* ------------------------------------------- Session methods under s.mu
\* The methods again, one statement at a time, called by concurrent callers.
\* A caller enters a method by taking s.mu and leaves it through the deferred
\* Unlock.

\* variant: Lock does not wait for the holder
MutexFreeBroken == TRUE

\* s.mu.Lock() returns only when nobody holds the mutex
MutexFree == mu = 0

ReadOps == {"Current", "Progress", "AttemptedCount", "Results", "Score", "Completed"}

Entry(op) ==
    IF op = "Answer" THEN "a_deq" ELSE IF op = "BringToFront" THEN "b_move" ELSE "read"

Lock(t, op, raw, target) ==
    /\ pc[t] = "idle"
    /\ MutexFree
    /\ mu' = t
    /\ pc' = [pc EXCEPT ![t] = Entry(op)]
    /\ loc' = [loc EXCEPT ![t] = [op |-> op, raw |-> raw, target |-> target,
                                  idx |-> -1, res |-> ZeroResult, snap |-> SessRec]]
    /\ UNCHANGED <<sess, ret, firstTry, peek, cliv, aux>>

\* return: the deferred s.mu.Unlock()
Unlock(t) ==
    /\ mu' = 0
    /\ pc' = [pc EXCEPT ![t] = "idle"]
    /\ loc' = [loc EXCEPT ![t] = NoLoc]

Goto(t, label) ==
    /\ pc' = [pc EXCEPT ![t] = label]
    /\ UNCHANGED mu

\* Answer: the empty-queue return, else dequeue the front index and grade
LockedAnswerDequeue(t) ==
    /\ pc[t] = "a_deq"
    /\ IF Len(queue) = 0
       THEN /\ Unlock(t)
            /\ UNCHANGED queue
       ELSE /\ queue' = Tail(queue)
            /\ loc' = [loc EXCEPT ![t].idx = queue[1],
                                  ![t].res = AttemptResult(loc[t].raw, Questions[queue[1]])]
            /\ Goto(t, "a_comp")
    /\ UNCHANGED <<Questions, attempted, completed, results, completedCount, attemptedCount,
                   ret, firstTry, peek, cliv, aux>>

\* Answer: if res.Correct && !s.completed[idx] { s.completed[idx] = true
LockedAnswerCompleted(t) ==
    /\ pc[t] = "a_comp"
    /\ completed' = AnswerCompleted(loc[t].idx, loc[t].res)
    /\ Goto(t, IF loc[t].res.Correct /\ ~completed[loc[t].idx] THEN "a_compcnt" ELSE "a_att")
    /\ UNCHANGED <<Questions, attempted, results, queue, completedCount, attemptedCount,
                   loc, ret, firstTry, peek, cliv, aux>>

\* Answer: s.completedCount++
LockedAnswerCompletedCount(t) ==
    /\ pc[t] = "a_compcnt"
    /\ completedCount' = completedCount + 1
    /\ Goto(t, "a_att")
    /\ UNCHANGED <<Questions, attempted, completed, results, queue, attemptedCount,
                   loc, ret, firstTry, peek, cliv, aux>>

\* Answer: if !s.attempted[idx] { s.attempted[idx] = true
LockedAnswerAttempted(t) ==
    /\ pc[t] = "a_att"
    /\ attempted' = AnswerAttempted(loc[t].idx)
    /\ Goto(t, IF ~attempted[loc[t].idx] THEN "a_res" ELSE "a_requeue")
    /\ UNCHANGED <<Questions, completed, results, queue, completedCount, attemptedCount,
                   loc, ret, firstTry, peek, cliv, aux>>

\* Answer: s.results[idx] = res
LockedAnswerResults(t) ==
    /\ pc[t] = "a_res"
    /\ results' = [results EXCEPT ![loc[t].idx] = loc[t].res]
    /\ Goto(t, "a_attcnt")
    /\ UNCHANGED <<Questions, attempted, completed, queue, completedCount, attemptedCount,
                   loc, ret, firstTry, peek, cliv, aux>>

\* Answer: s.attemptedCount++
LockedAnswerAttemptedCount(t) ==
    /\ pc[t] = "a_attcnt"
    /\ attemptedCount' = attemptedCount + 1
    /\ Goto(t, "a_requeue")
    /\ UNCHANGED <<Questions, attempted, completed, results, queue, completedCount,
                   loc, ret, firstTry, peek, cliv, aux>>

\* Answer: requeue a missed index, then return
LockedAnswerRequeue(t) ==
    /\ pc[t] = "a_requeue"
    /\ queue' = IF ~loc[t].res.Correct THEN Append(queue, loc[t].idx) ELSE queue
    /\ firstTry' = IF firstTry[loc[t].idx] = "none"
                   THEN [firstTry EXCEPT ![loc[t].idx] =
                            IF loc[t].res.Correct THEN "right" ELSE "wrong"]
                   ELSE firstTry
    /\ Unlock(t)
    /\ UNCHANGED <<Questions, attempted, completed, results, completedCount, attemptedCount,
                   ret, peek, cliv, aux>>

\* BringToFront: the whole body, then return
LockedBringToFront(t) ==
    /\ pc[t] = "b_move"
    /\ queue' = IF BringToFrontSkips(loc[t].target) THEN queue
                ELSE MoveToFront(queue, loc[t].target)
    /\ Unlock(t)
    /\ UNCHANGED <<Questions, attempted, completed, results, completedCount, attemptedCount,
                   ret, firstTry, peek, cliv, aux>>

\* a query: read the fields, then return
LockedRead(t) ==
    /\ pc[t] = "read"
    /\ Unlock(t)
    /\ UNCHANGED <<sess, ret, firstTry, peek, cliv, aux>>

NextLock ==
    \/ \E t \in Threads : \E raw \in Inputs : Lock(t, "Answer", raw, -1)
    \/ \E t \in Threads : \E target \in Targets : Lock(t, "BringToFront", <<>>, target)
    \/ \E t \in Threads : \E op \in ReadOps : Lock(t, op, <<>>, -1)
    \/ \E t \in Threads : LockedAnswerDequeue(t)
    \/ \E t \in Threads : LockedAnswerCompleted(t)
    \/ \E t \in Threads : LockedAnswerCompletedCount(t)
    \/ \E t \in Threads : LockedAnswerAttempted(t)
    \/ \E t \in Threads : LockedAnswerResults(t)
    \/ \E t \in Threads : LockedAnswerAttemptedCount(t)
    \/ \E t \in Threads : LockedAnswerRequeue(t)
    \/ \E t \in Threads : LockedBringToFront(t)
    \/ \E t \in Threads : LockedRead(t)

SpecLock == Init /\ [][NextLock]_vars

\* ------------------------------------------------- the terminal front end
\* answers the prompt can return: "A", "B", "C"
CliChoices == { <<65>>, <<66>>, <<67>> }

Min(a, b) == IF a < b THEN a ELSE b

\* terminal widths termSize can report: 0 when the ioctl fails, else the columns
Widths == {0, 80, 100, 200}

\* len([]rune(status)): the mark and the word between two colour codes and a reset
StatusLen(correct) == IF correct THEN 5 + 4 + 9 + 4 ELSE 5 + 4 + 11 + 4

\* len([]rune(line)) of review row i: "Q%-3d %-9s Your:%s Correct:%s"
RowLen(i, qs, res) ==
    4 + 1 + StatusLen(res[i].Correct)
      + 6 + (IF res[i].UserAnswer = <<>> THEN 1 ELSE Len(res[i].UserAnswer))
      + 9 + Len(qs[i])

Max(S) == IF S = {} THEN 0 ELSE CHOOSE m \in S : \A x \in S : x <= m

\* cols: how many review rows go side by side on a terminal of the given width
SummaryCols(n, qs, res, width) ==
    LET colWidth == Max({ RowLen(i, qs, res) : i \in 0..(n - 1) }) + 2
    IN  IF width > 0 /\ colWidth > 0 /\ width \div colWidth > 0
        THEN width \div colWidth ELSE 1

\* one printed line: a blank one, the "Review:" header, review rows side by
\* side (their question indices, left to right), or the grade
Line(kind, cells) == [kind |-> kind, cells |-> cells]

\* the lines of the review, column-major: line r holds rows r, rowsPerCol + r, ...
ReviewLines(n, cols) ==
    LET rowsPerCol == (n + cols - 1) \div cols
    IN  [r \in 1..rowsPerCol |->
           LET cells == SelectSeq([c \in 1..cols |-> (c - 1) * rowsPerCol + (r - 1)],
                                  LAMBDA idx : idx < n)
           IN  Line(IF cells = <<>> THEN "blank" ELSE "rows", cells)]

\* variant: the grade is printed before the review
SummaryLinesGradeFirst(review) ==
    <<Line("grade", <<>>), Line("blank", <<>>), Line("header", <<>>)>> \o review

\* fmt.Println("\nReview:"), the review lines, then the "You answered ..." line
SummaryLines(review) ==
    <<Line("blank", <<>>), Line("header", <<>>)>> \o review \o <<Line("grade", <<>>)>>

\* printSummary(answered, questions, results): the count it reports, the
\* correct answers it counts, the question indices of its review rows, in order,
\* and the lines it prints
PrintSummary(answered, qs, res, width) ==
    LET n == Min(Min(answered, Cardinality(DOMAIN qs)), Cardinality(DOMAIN res))
    IN  [answered |-> n,
         score    |-> Cardinality({ i \in 0..(n - 1) : res[i].Correct }),
         rows     |-> [k \in 1..n |-> k - 1],
         lines    |-> SummaryLines(ReviewLines(n, SummaryCols(n, qs, res, width)))]

\* the process is running: runCLI has not returned and the handler has not exited
Alive == cpc.at # "returned" /\ hpc \in {"armed", "scored"}

At(label) == [at |-> label, answered |-> 0]

\* variant: the loop does not test ok
CliAfterCurrentIgnoresOk(ok) == At("progress")

\* if !ok { break }
CliAfterCurrent(ok) == IF ok THEN At("progress") ELSE At("score")

\* runCLI: idx, q, ok := session.Current(); if !ok { break }
CliCurrent ==
    /\ Alive /\ cpc.at = "loop"
    /\ Current
    /\ cpc' = CliAfterCurrent(ret'.ok)
    /\ UNCHANGED <<firstTry, peek, lockv, aux, hpc, hAnswered, summary>>

\* runCLI: completed, total := session.Progress()
CliProgress ==
    /\ Alive /\ cpc.at = "progress"
    /\ Progress
    /\ cpc' = At("prompt")
    /\ UNCHANGED <<firstTry, peek, lockv, aux, hpc, hAnswered, summary>>

\* runCLI: the prompt returned a search hit; session.BringToFront(jump); continue
CliJump ==
    /\ Alive /\ cpc.at = "prompt"
    /\ \E jump \in Indices : BringToFront(jump)
    /\ cpc' = At("loop")
    /\ UNCHANGED <<firstTry, peek, lockv, aux, hpc, hAnswered, summary>>

\* runCLI: the prompt returned !inputOK; return
CliInputEnded ==
    /\ Alive /\ cpc.at = "prompt"
    /\ cpc' = At("returned")
    /\ UNCHANGED <<sess, ret, firstTry, peek, lockv, aux, hpc, hAnswered, summary>>

\* runCLI: res, finished, _ := session.Answer(string(userChoice)); if finished { break }
CliAnswer ==
    /\ Alive /\ cpc.at = "prompt"
    /\ \E choice \in CliChoices : Answer(choice)
    /\ FirstTryAnswer
    /\ cpc' = IF ret'.finished THEN At("score") ELSE At("loop")
    /\ UNCHANGED <<peek, lockv, aux, hpc, hAnswered, summary>>

\* runCLI: _, answered := session.Score()
CliScore ==
    /\ Alive /\ cpc.at = "score"
    /\ Score
    /\ cpc' = [at |-> "summary", answered |-> ret'.b]
    /\ UNCHANGED <<firstTry, peek, lockv, aux, hpc, hAnswered, summary>>

\* runCLI: printSummary(answered, questions, session.Results())
CliSummary ==
    /\ Alive /\ cpc.at = "summary"
    /\ Results
    /\ \E width \in Widths :
         summary' = PrintSummary(cpc.answered, Questions, ret'.list, width)
    /\ cpc' = At("returned")
    /\ UNCHANGED <<firstTry, peek, lockv, aux, hpc, hAnswered>>

\* interrupt handler: the signal arrives; _, answered := session.Score();
\* with answered == 0 it reports that nothing was recorded and exits
SignalScore ==
    /\ Alive /\ hpc = "armed"
    /\ Score
    /\ hAnswered' = ret'.b
    /\ hpc' = IF ret'.b = 0 THEN "exited" ELSE "scored"
    /\ UNCHANGED <<firstTry, peek, lockv, aux, cpc, summary>>

\* interrupt handler: printSummary(answered, allQuestions, session.Results()); os.Exit(0)
SignalPrint ==
    /\ Alive /\ hpc = "scored"
    /\ Results
    /\ \E width \in Widths :
         summary' = PrintSummary(hAnswered, Questions, ret'.list, width)
    /\ hpc' = "printed"
    /\ UNCHANGED <<firstTry, peek, lockv, aux, cpc, hAnswered>>

NextCLI ==
    \/ CliCurrent
    \/ CliProgress
    \/ CliJump
    \/ CliInputEnded
    \/ CliAnswer
    \/ CliScore
    \/ CliSummary
    \/ SignalScore
    \/ SignalPrint

SpecCLI == Init /\ [][NextCLI]_vars

\* what one call does to a Session value when nothing else runs
SeqAnswer(s, raw) ==
    IF Len(s.queue) = 0 THEN s
    ELSE LET idx == s.queue[1]
             res == AttemptResult(raw, s.Questions[idx])
             first == ~s.attempted[idx]
             done == res.Correct /\ ~s.completed[idx]
         IN  [Questions |-> s.Questions,
              attempted |-> [s.attempted EXCEPT ![idx] = TRUE],
              completed |-> IF done THEN [s.completed EXCEPT ![idx] = TRUE] ELSE s.completed,
              results |-> IF first THEN [s.results EXCEPT ![idx] = res] ELSE s.results,
              queue |-> IF res.Correct THEN Tail(s.queue) ELSE Append(Tail(s.queue), idx),
              completedCount |-> IF done THEN s.completedCount + 1 ELSE s.completedCount,
              attemptedCount |-> IF first THEN s.attemptedCount + 1 ELSE s.attemptedCount]

SeqBringToFront(s, target) ==
    IF target < 0 \/ target >= Cardinality(DOMAIN s.completed) THEN s
    ELSE IF s.completed[target] THEN s
    ELSE [s EXCEPT !.queue = <<target>> \o SelectSeq(s.queue, LAMBDA x : x # target)]

SeqEffect(l) ==
    IF l.op = "Answer" THEN SeqAnswer(l.snap, l.raw)
    ELSE IF l.op = "BringToFront" THEN SeqBringToFront(l.snap, l.target)
    ELSE l.snap

\* what Score() returns on a Session value
ScoreOf(s) ==
    [score    |-> Cardinality({ i \in DOMAIN s.results : s.attempted[i] /\ s.results[i].Correct }),
     answered |-> Cardinality({ i \in DOMAIN s.results : s.attempted[i] })]

\* ------------------------------------------------------ the HTTP front end
\* A request runs its handler one Session call at a time; each Session call and
\* each s.mu section of the Server is one step.  Requests of different clients
\* interleave freely.  heap holds the Session objects that the server or a
\* request in flight points to; the others are garbage and are dropped.

\* the question set the server is started with: two questions, keys "A" and "B"
WebQuestions == QuestionsOf(2)

\* answers a client posts: "A", "B"
WebAnswers == { <<65>>, <<66>> }

\* search terms a client posts: "", "2", "3" (no such question, but found in the
\* prompt of question 1), a text found in both prompts, a text found in none
JumpTerms ==
    { NoTerm,
      [empty |-> FALSE, numeric |-> TRUE, num |-> 2, hits |-> {}],
      [empty |-> FALSE, numeric |-> TRUE, num |-> 3, hits |-> {1}],
      [empty |-> FALSE, numeric |-> FALSE, num |-> 0, hits |-> {0, 1}],
      [empty |-> FALSE, numeric |-> FALSE, num |-> 0, hits |-> {}] }

\* quiz.NewSession(questions) as a value
FreshSession(qs, perm) ==
    [Questions |-> qs, attempted |-> [i \in DOMAIN qs |-> FALSE],
     completed |-> [i \in DOMAIN qs |-> FALSE],
     results |-> [i \in DOMAIN qs |-> ZeroResult],
     queue |-> perm, completedCount |-> 0, attemptedCount |-> 0]

\* Run: the server starts with a fresh Session over its questions
ServerUp ==
    /\ NewSession(QuestionsOf(0), <<>>)
    /\ InitFront
    /\ due = <<>>
    /\ srvSession = 1
    /\ \E perm \in Perms(Cardinality(DOMAIN WebQuestions)) :
         heap = [k \in SessionIds |-> IF k = 1 THEN FreshSession(WebQuestions, perm) ELSE NoSnap]
    /\ req = [c \in Clients |-> NoReq]
    /\ resetTo = 0

InitWeb == ServerUp /\ watched = Observed

WebFrame == UNCHANGED <<sess, ret, firstTry, peek, lockv, cliv, calls, wrongs, due, watched>>

\* the objects of h still pointed to by the server (ptr) or by a request of r
Collect(h, ptr, r) ==
    [k \in SessionIds |-> IF k = ptr \/ \E c \in Clients : r[c].s = k THEN h[k] ELSE NoSnap]

\* the handler's notes toward its response, as far as they are kept
Rec(c, o) == IF c \in watched THEN o ELSE NoOut

\* variant: Server.mu is not unlocked
ReleasedKeepsServer(r) ==
    [c \in Clients |-> IF r[c] # req[c] /\ req[c].holds # "server"
                       THEN [r[c] EXCEPT !.holds = ""] ELSE r[c]]

\* r, with the mutex released that the client taking the step held
Released(r) ==
    [c \in Clients |-> IF r[c] # req[c] THEN [r[c] EXCEPT !.holds = ""] ELSE r[c]]

\* the handler goes on, with the locals as in r
Continue(r) == req' = Released(r)

\* the handler writes response o (writeJSON) and returns; the response leaves
\* the server and is no part of its state
Respond(c, o) == req' = [req EXCEPT ![c] = NoReq]

\* history: resetTo after a step that leaves heap' (called before heap' is collected)
Touched(h) == IF resetTo # 0 /\ h[resetTo] # heap[resetTo] THEN 0 ELSE resetTo

\* the endpoints whose handlers test r.Method
PostOnly == {"answer", "reset", "jump"}

Methods == {"GET", "POST"}

\* a request arrives.  Its method and what is in its body have no effect before
\* the handler first uses them, and are drawn there.
StartRequest(c, kind) ==
    /\ req[c].at = "idle"
    /\ Continue([req EXCEPT ![c] =
                   [NoReq EXCEPT !.kind = kind,
                                 !.at = IF kind \in PostOnly THEN "method"
                                        ELSE IF kind = "summary" THEN "sumload"
                                        ELSE "load"]])
    /\ UNCHANGED <<srvSession, heap, resetTo>>
    /\ WebFrame

\* a response with no body: w.WriteHeader(code)
Status(code) == [NoOut EXCEPT !.status = code]

\* variant: any method is let through
MethodAllowedAny(method) == method \in Methods

\* r.Method == http.MethodPost
MethodAllowed(method) == method = "POST"

\* if r.Method != http.MethodPost { w.WriteHeader(http.StatusMethodNotAllowed); return }
CheckMethod(c, method) ==
    /\ req[c].at = "method"
    /\ IF ~MethodAllowed(method)
       THEN Respond(c, Status(405))
       ELSE Continue([req EXCEPT ![c].at = IF req[c].kind = "reset" THEN "swap"
                                           ELSE IF req[c].kind = "jump" THEN "term"
                                           ELSE "load"])
    /\ UNCHANGED <<srvSession, heap, resetTo>>
    /\ WebFrame

\* the response of a jump that found nothing
NotFound == NoOut

\* what the body of a jump request decodes to: an error, or a term
JumpBodies == {[ok |-> FALSE, term |-> NoTerm]} \cup { [ok |-> TRUE, term |-> t] : t \in JumpTerms }

\* handleJump: the body is decoded, else 400; term := strings.TrimSpace(req.Term);
\* "" is answered "not found"
JumpTerm(c, body) ==
    /\ req[c].at = "term"
    /\ IF ~body.ok THEN Respond(c, Status(400))
       ELSE IF body.term.empty THEN Respond(c, NotFound)
       ELSE Continue([req EXCEPT ![c].at = "load"])
    /\ UNCHANGED <<srvSession, heap, resetTo>>
    /\ WebFrame

\* s.mu.Lock(); session := s.session; s.mu.Unlock(); handleAnswer then decodes
\* the body and answers 400 when that fails (ok = FALSE)
LoadSession(c, ok) ==
    /\ req[c].at = "load"
    /\ IF req[c].kind = "answer" /\ ~ok
       THEN Respond(c, Status(400))
       ELSE Continue([req EXCEPT ![c].s = srvSession,
                                 ![c].at = IF req[c].kind = "answer" THEN "current"
                                           ELSE IF req[c].kind = "jump" THEN "completed"
                                           ELSE "progress"])
    /\ UNCHANGED <<srvSession, heap, resetTo>>
    /\ WebFrame

\* handleAnswer: _, q, ok := session.Current(); if !ok { respond finished }
AnswerCurrent(c) ==
    /\ req[c].at = "current"
    /\ req[c].kind = "answer"
    /\ LET cur == heap[req[c].s]
       IN  IF Len(cur.queue) = 0
           THEN Respond(c, [NoOut EXCEPT !.finished = TRUE])
           ELSE Continue([req EXCEPT ![c].q = cur.queue[1], ![c].at = "answer"])
    /\ heap' = Collect(heap, srvSession, req')
    /\ UNCHANGED <<srvSession, resetTo>>
    /\ WebFrame

\* handleAnswer: res, finished, _ := session.Answer(req.Answer)
AnswerAnswer(c, raw) ==
    /\ req[c].at = "answer"
    /\ LET cur == heap[req[c].s]
           new == SeqAnswer(cur, raw)
           empty == Len(cur.queue) = 0
       IN  /\ heap' = [heap EXCEPT ![req[c].s] = new]
           /\ resetTo' = Touched(heap')
           /\ Continue([req EXCEPT
                ![c].out = Rec(c,
                   [NoOut EXCEPT
                      !.res = IF empty THEN ZeroResult
                              ELSE AttemptResult(raw, cur.Questions[cur.queue[1]]),
                      !.finished = IF empty THEN TRUE ELSE Len(new.queue) = 0,
                      \* history: the index this Answer graded, the counts it left
                      !.graded = IF empty THEN -1 ELSE cur.queue[1],
                      !.after = <<new.completedCount, new.attemptedCount>>]),
                ![c].at = "progress"])
    /\ UNCHANGED srvSession
    /\ WebFrame

\* completed, total := session.Progress()
ReadProgress(c) ==
    /\ req[c].at = "progress"
    /\ Continue([req EXCEPT
                   ![c].out = Rec(c, [@ EXCEPT !.completed = heap[req[c].s].completedCount]),
                   ![c].at = "attempted"])
    /\ UNCHANGED <<srvSession, heap, resetTo>>
    /\ WebFrame

\* the answerResponse: the notes so far, the attempted count just read, and the
\* question peeked, whose key is reported as correctAnswer
AnswerResponse(c) ==
    [req[c].out EXCEPT !.attempted = heap[req[c].s].attemptedCount, !.question = req[c].q]

\* session.AttemptedCount(); handleAnswer then writes its response
ReadAttempted(c) ==
    /\ req[c].at = "attempted"
    /\ IF req[c].kind = "answer"
       THEN Respond(c, AnswerResponse(c))
       ELSE Continue([req EXCEPT
                        ![c].out = Rec(c, [@ EXCEPT !.attempted = heap[req[c].s].attemptedCount]),
                        ![c].at = "current"])
    /\ heap' = Collect(heap, srvSession, req')
    /\ UNCHANGED <<srvSession, resetTo>>
    /\ WebFrame

\* the stateResponse of an unfinished quiz: the progress read, and the question
StateResponse(c) ==
    [req[c].out EXCEPT !.question = heap[req[c].s].queue[1]]

\* handleState: idx, q, ok := session.Current(); with !ok the summary is built
StateCurrent(c) ==
    /\ req[c].at = "current"
    /\ req[c].kind = "state"
    /\ LET cur == heap[req[c].s]
       IN  IF Len(cur.queue) = 0
           THEN Continue([req EXCEPT ![c].out = Rec(c, [@ EXCEPT !.finished = TRUE]),
                                     ![c].at = "sumload"])
           ELSE Respond(c, StateResponse(c))
    /\ heap' = Collect(heap, srvSession, req')
    /\ UNCHANGED <<srvSession, resetTo>>
    /\ WebFrame

\* buildSummary: s.mu.Lock(); session := s.session; s.mu.Unlock()
\* (handleState's own session variable is dead from here on; same keeps whether
\* buildSummary got the same object)
SummaryLoad(c) ==
    /\ req[c].at = "sumload"
    /\ Continue([req EXCEPT ![c].s = srvSession,
                            ![c].same = (req[c].kind = "state" => req[c].s = srvSession),
                            ![c].at = "score"])
    /\ heap' = Collect(heap, srvSession, req')
    /\ UNCHANGED <<srvSession, resetTo>>
    /\ WebFrame

\* buildSummary: score, answered := session.Score()
SummaryScore(c) ==
    /\ req[c].at = "score"
    /\ Continue([req EXCEPT
                   ![c].out = Rec(c, [@ EXCEPT !.score = ScoreOf(heap[req[c].s]).score,
                                              !.answered = ScoreOf(heap[req[c].s]).answered]),
                   ![c].at = "results"])
    /\ UNCHANGED <<srvSession, heap, resetTo>>
    /\ WebFrame

\* the summary, alone or inside a stateResponse with finished = true
SummaryResponse(c) ==
    [req[c].out EXCEPT !.rows = heap[req[c].s].results]

\* buildSummary: results := session.Results(); one row per result
SummaryResults(c) ==
    /\ req[c].at = "results"
    /\ Respond(c, SummaryResponse(c))
    /\ heap' = Collect(heap, srvSession, req')
    /\ UNCHANGED <<srvSession, resetTo>>
    /\ WebFrame

\* variant: reset clears the Session the server points to in place
ResetSwapInPlace(c, fresh) ==
    /\ heap' = [heap EXCEPT ![srvSession] = fresh]
    /\ srvSession' = srvSession

\* handleReset: s.mu.Lock(); s.session = quiz.NewSession(s.questions); s.mu.Unlock()
\* (the new object takes the first identity no request in flight points to)
ResetSwap(c, fresh) ==
    \E k \in SessionIds :
        /\ \A d \in Clients : req[d].s # k
        /\ \A j \in SessionIds : j < k => \E d \in Clients : req[d].s = j
        /\ heap' = Collect([heap EXCEPT ![k] = fresh], k, req')
        /\ srvSession' = k

HandleReset(c) ==
    /\ req[c].at = "swap"
    /\ Respond(c, NoOut)
    /\ \E perm \in Perms(Cardinality(DOMAIN WebQuestions)) :
         ResetSwap(c, FreshSession(WebQuestions, perm))
    /\ resetTo' = srvSession'
    /\ WebFrame

\* findQuestionIndex(term) over n questions
FindQuestionIndex(term, n) ==
    IF term.numeric /\ term.num - 1 >= 0 /\ term.num - 1 < n THEN term.num - 1
    ELSE IF term.hits # {} THEN CHOOSE i \in term.hits : \A j \in term.hits : i <= j
    ELSE -1

\* handleJump: if session.Completed() { not found }; idx := s.findQuestionIndex(term)
JumpCompleted(c, term) ==
    /\ req[c].at = "completed"
    /\ ~term.empty
    /\ LET idx == FindQuestionIndex(term, Cardinality(DOMAIN WebQuestions))
       IN  IF Len(heap[req[c].s].queue) = 0 \/ idx < 0
           THEN Respond(c, NotFound)
           ELSE Continue([req EXCEPT ![c].q = idx, ![c].at = "bring"])
    /\ heap' = Collect(heap, srvSession, req')
    /\ UNCHANGED <<srvSession, resetTo>>
    /\ WebFrame

\* handleJump: session.BringToFront(idx); respond found with index idx + 1
JumpBring(c) ==
    /\ req[c].at = "bring"
    /\ Respond(c, [NoOut EXCEPT !.found = TRUE, !.index = req[c].q + 1])
    /\ heap' = Collect([heap EXCEPT ![req[c].s] = SeqBringToFront(@, req[c].q)], srvSession, req')
    /\ resetTo' = Touched([heap EXCEPT ![req[c].s] = SeqBringToFront(@, req[c].q)])
    /\ UNCHANGED srvSession
    /\ WebFrame

\* ---- the two mutexes.  In SpecWeb every step is one whole critical section;
\* here Lock() is a step of its own, so that a handler can be seen waiting.

\* the mutex the next step of c's handler runs under: Server.mu around loading
\* or replacing s.session, Session.mu inside a Session method, none for the
\* steps on the request alone
Needs(c) ==
    IF req[c].at \in {"load", "sumload", "swap"} THEN "server"
    ELSE IF req[c].at \in {"idle", "method", "term"} THEN ""
    ELSE "session"

\* nobody else holds the mutex c needs
MuFree(c) ==
    \A d \in Clients \ {c} :
        \/ req[d].holds # Needs(c)
        \/ Needs(c) = "session" /\ req[d].s # req[c].s

\* s.mu.Lock(): returns once the mutex is free
Acquire(c) ==
    /\ Needs(c) # ""
    /\ req[c].holds = ""
    /\ MuFree(c)
    /\ req' = [req EXCEPT ![c].holds = Needs(c)]
    /\ UNCHANGED <<srvSession, heap, resetTo>>
    /\ WebFrame

\* c holds what its next step runs under
Locked(c) == req[c].holds = Needs(c)

\* the next step of c's handler
Handler(c) ==
    \/ \E method \in Methods : CheckMethod(c, method)
    \/ \E body \in JumpBodies : JumpTerm(c, body)
    \/ \E ok \in BOOLEAN : LoadSession(c, ok)
    \/ AnswerCurrent(c)
    \/ \E raw \in WebAnswers : AnswerAnswer(c, raw)
    \/ ReadProgress(c)
    \/ ReadAttempted(c)
    \/ StateCurrent(c)
    \/ SummaryLoad(c)
    \/ SummaryScore(c)
    \/ SummaryResults(c)
    \/ HandleReset(c)
    \/ \E term \in JumpTerms : JumpCompleted(c, term)
    \/ JumpBring(c)

NextWebLock ==
    \/ \E c \in Observed : StartRequest(c, "state")
    \/ \E c \in Observed : StartRequest(c, "summary")
    \/ \E c \in Clients : \E kind \in PostOnly : StartRequest(c, kind)
    \/ \E c \in Clients : Acquire(c)
    \/ \E c \in Clients : Locked(c) /\ Handler(c)

\* the same server, with no handler's notes kept
InitWebLock == ServerUp /\ watched = {}

SpecWebLock == InitWebLock /\ [][NextWebLock]_vars

\* (a state or summary request changes nothing on the server, so only those of
\* the observed client are followed)
NextWeb ==
    \/ \E c \in Observed : StartRequest(c, "state")
    \/ \E c \in Observed : StartRequest(c, "summary")
    \/ \E c \in Clients : \E kind \in PostOnly : StartRequest(c, kind)
    \/ \E c \in Clients : \E method \in Methods : CheckMethod(c, method)
    \/ \E c \in Clients : \E body \in JumpBodies : JumpTerm(c, body)
    \/ \E c \in Clients : \E ok \in BOOLEAN : LoadSession(c, ok)
    \/ \E c \in Clients : AnswerCurrent(c)
    \/ \E c \in Clients : \E raw \in WebAnswers : AnswerAnswer(c, raw)
    \/ \E c \in Clients : ReadProgress(c)
    \/ \E c \in Clients : ReadAttempted(c)
    \/ \E c \in Clients : StateCurrent(c)
    \/ \E c \in Clients : SummaryLoad(c)
    \/ \E c \in Clients : SummaryScore(c)
    \/ \E c \in Clients : SummaryResults(c)
    \/ \E c \in Clients : HandleReset(c)
    \/ \E c \in Clients : \E term \in JumpTerms : JumpCompleted(c, term)
    \/ \E c \in Clients : JumpBring(c)

SpecWeb == InitWeb /\ [][NextWeb]_vars

\* ------------------------------------------------------------ properties
QueueSet == Range(queue)

CompletedSet == { i \in Indices : completed[i] }

AnswerReturned == ret.op = "Answer" /\ ret.err = ""

\* C1: at every reachable state the indices in queue and the indices with
\* completed[i] = TRUE are disjoint, and together they are exactly 0..len(questions)-1.
C1_QueueCompletedPartition ==
    /\ QueueSet \cap CompletedSet = {}
    /\ QueueSet \cup CompletedSet = Indices
    /\ Indices = 0..(Cardinality(Indices) - 1)

\* a BringToFront has just reordered a queue while some index is already completed
C1_Witness ==
    /\ ret.op = "BringToFront" /\ ret.ok /\ ret.a > 0
    /\ CompletedSet # {}
    /\ Len(queue) >= 2

\* C2: at every reachable state no index occurs more than once in queue.
C2_QueueNoDuplicates ==
    \A a, b \in 1..Len(queue) : a # b => queue[a] # queue[b]

\* BringToFront has just moved the middle element of a three-element queue
C2_Witness ==
    /\ ret.op = "BringToFront" /\ ret.ok /\ ret.a = 1
    /\ Len(queue) = 3
    /\ queue[1] = ret.idx

\* BringToFront has just moved the back element of a three-element queue
C2_WitnessBack ==
    /\ ret.op = "BringToFront" /\ ret.ok /\ ret.a = 2
    /\ Len(queue) = 3
    /\ queue[1] = ret.idx

\* C3: results[i] is written exactly once, by the first Answer that dequeues i:
\* that Answer stores the Result it returns; once an index has been answered no
\* step (a later Answer of either correctness, BringToFront, a query) changes
\* results[i]; and results[i] changes in no other way.
C3_ResultsWrittenOnce ==
    [][\A i \in Indices :
         /\ firstTry[i] # "none" => results'[i] = results[i]
         /\ (ret'.op = "Answer" /\ Len(queue) # 0 /\ queue[1] = i /\ firstTry[i] = "none")
               => results'[i] = ret'.res
         /\ results'[i] # results[i]
               => (ret'.op = "Answer" /\ Len(queue) # 0 /\ queue[1] = i /\ firstTry[i] = "none")
      ]_vars

\* a repeat Answer has just returned a Result that differs from the stored one
C3_Witness ==
    /\ AnswerReturned
    /\ ret.res.Correct
    /\ firstTry[ret.idx] = "wrong"
    /\ results[ret.idx] # ret.res
    /\ ~results[ret.idx].Correct

\* C4: Score() returns (score, answered): answered is the number of distinct
\* indices ever answered, score the number of those whose first submitted answer
\* was graded correct.
C4_ScoreCountsFirstAttempts ==
    /\ ScoreValue.answered = Cardinality({ i \in Indices : firstTry[i] # "none" })
    /\ ScoreValue.score = Cardinality({ i \in Indices : firstTry[i] = "right" })
    /\ ret.op = "Score" =>
          /\ ret.b = Cardinality({ i \in Indices : firstTry[i] # "none" })
          /\ ret.a = Cardinality({ i \in Indices : firstTry[i] = "right" })

\* wrong-then-right on a one-question quiz, then Score() = (0, 1)
C4_Witness ==
    /\ Cardinality(Indices) = 1
    /\ firstTry[0] = "wrong"
    /\ completed[0]
    /\ ret.op = "Score" /\ ret.a = 0 /\ ret.b = 1

\* C5: a successful Answer on queue q with front idx leaves Tail(q) when the
\* answer is graded correct and Tail(q) followed by idx when it is not; the
\* length drops by one, respectively stays, and never grows.
C5_AnswerQueueEffect ==
    [][(ret'.op = "Answer" /\ Len(queue) # 0) =>
         /\ ret'.err = ""
         /\ ret'.res.Correct =>
               (queue' = Tail(queue) /\ Len(queue') = Len(queue) - 1)
         /\ ~ret'.res.Correct =>
               /\ queue' = Append(Tail(queue), queue[1])
               /\ Len(queue') = Len(queue)
               /\ queue'[Len(queue')] = queue[1]
         /\ Len(queue') <= Len(queue)
      ]_vars

\* an incorrect Answer has just sent the front index behind another queued index
C5_Witness ==
    /\ AnswerReturned
    /\ ~ret.res.Correct
    /\ Len(queue) >= 2
    /\ queue[Len(queue)] = ret.idx
    /\ queue[1] # ret.idx

\* C6: an index leaves the queue only through an Answer that dequeues it as the
\* front index and grades it correct; BringToFront and the queries remove none.
C6_LeavesOnlyByCorrectAnswer ==
    [][\A i \in Range(queue) \ Range(queue') :
         /\ ret'.op = "Answer"
         /\ ret'.err = ""
         /\ queue[1] = i
         /\ ret'.res.Correct
      ]_vars

\* a correct Answer has just removed an index while others stay queued
C6_Witness ==
    /\ AnswerReturned
    /\ ret.res.Correct
    /\ ret.idx \notin Range(queue)
    /\ Len(queue) >= 1

\* a BringToFront has just acted on a queue that a correct Answer had shortened
C6_WitnessBringToFront ==
    /\ ret.op = "BringToFront" /\ ret.ok /\ ret.a > 0
    /\ Len(queue) = Cardinality(Indices) - 1

\* C7: the session is finished exactly when queue is empty: Completed() is true
\* iff Current() returns ok = false iff completedCount = len(questions), and the
\* finished flag of a successful Answer is true iff the queue is empty after it.
C7_FinishedIffQueueEmpty ==
    /\ CompletedValue <=> (Len(queue) = 0)
    /\ CurrentOk <=> (Len(queue) # 0)
    /\ (Len(queue) = 0) <=> (completedCount = Cardinality(Indices))
    /\ ret.op = "Completed" => (ret.ok <=> (Len(queue) = 0))
    /\ ret.op = "Current" => (ret.ok <=> (Len(queue) # 0))
    /\ AnswerReturned => (ret.finished <=> (Len(queue) = 0))

\* a successful Answer has just finished a quiz of at least two questions
C7_Witness ==
    /\ AnswerReturned
    /\ ret.finished
    /\ Cardinality(Indices) >= 2
    /\ completedCount = Cardinality(Indices)

\* an incorrect Answer on a one-element queue has just returned finished = false
C7_WitnessNotFinished ==
    /\ AnswerReturned
    /\ ~ret.finished
    /\ Len(queue) = 1
    /\ queue[1] = ret.idx

\* an incorrect answer is submitted in this step
WrongStep == ret'.op = "Answer" /\ ret'.err = "" /\ ~ret'.res.Correct

AllCompleted == Len(queue) = 0 /\ \A i \in Indices : completed[i]

JustWrong(i) == AnswerReturned /\ ~ret.res.Correct /\ ret.idx = i

AtFront(i) == Len(queue) # 0 /\ queue[1] = i

\* C8: if Answer keeps being called and incorrect answers are submitted only
\* finitely often, the session ends up finished with every question completed,
\* whatever BringToFront calls are interleaved; and an index that has just been
\* answered incorrectly comes back to the front of the queue.
C8_EventuallyFinished ==
    (<>[][~WrongStep]_vars) =>
        /\ <>[]AllCompleted
        /\ \A i \in 0..(MaxQuestions - 1) : JustWrong(i) ~> AtFront(i)

\* the quiz is finished although some first answer was incorrect
C8_Witness ==
    /\ AllCompleted
    /\ Cardinality(Indices) >= 2
    /\ \E i \in Indices : firstTry[i] = "wrong"
    /\ ret.op = "Answer"

\* C9 as stated: Current() returns the front of queue (-1 and ok = false on an
\* empty queue), changes no Session state, and returns the same index as the
\* previous Current() whenever no Answer was called in between.
C9_PeekSameUntilAnswer ==
    [][ret'.op = "Current" =>
         /\ ret'.idx = (IF Len(queue) = 0 THEN -1 ELSE queue[1])
         /\ ret'.ok = (Len(queue) # 0)
         /\ UNCHANGED sess
         /\ peek # NoPeek => ret'.idx = peek.idx
      ]_vars

\* C9 as amended: Current() returns the front of queue (-1 and ok = false on an
\* empty queue), changes no Session state, and returns the same index as the
\* previous Current() whenever neither Answer nor BringToFront was called in
\* between.
C9_PeekSameUntilAnswerOrJump ==
    [][ret'.op = "Current" =>
         /\ ret'.idx = (IF Len(queue) = 0 THEN -1 ELSE queue[1])
         /\ ret'.ok = (Len(queue) # 0)
         /\ UNCHANGED sess
         /\ (peek # NoPeek /\ ~peek.moved) => ret'.idx = peek.idx
      ]_vars

\* Current() has just returned the front of a queue that holds other indices too
C9_Witness ==
    /\ ret.op = "Current" /\ ret.ok
    /\ Len(queue) >= 2
    /\ peek = [idx |-> queue[1], moved |-> FALSE]

\* C10: Answer on an empty queue returns the error "quiz already completed"
\* with an empty Result and finished = true, and leaves queue, attempted,
\* completed, results and both counters unchanged.
C10_AnswerOnEmptyQueue ==
    [][(ret'.op = "Answer" /\ Len(queue) = 0) =>
         /\ ret'.err = "quiz already completed"
         /\ ret'.res = ZeroResult
         /\ ret'.finished = TRUE
         /\ UNCHANGED <<queue, attempted, completed, results, completedCount, attemptedCount>>
      ]_vars

\* Answer has just failed on a quiz whose questions were all answered
C10_Witness ==
    /\ ret.op = "Answer"
    /\ ret.err = "quiz already completed"
    /\ Cardinality(Indices) >= 1
    /\ completedCount = Cardinality(Indices)

BringToFrontCalled == ret.op = "BringToFront"

\* C11: for an in-range target t with completed[t] false, right after
\* BringToFront(t) the front of queue is t.
C11_TargetAtFront ==
    [][(ret'.op = "BringToFront" /\ ret'.idx \in Indices /\ ~completed[ret'.idx]) =>
         /\ Len(queue') # 0
         /\ queue'[1] = ret'.idx
      ]_vars

\* a question missed earlier has just been brought from behind to the front
C11_Witness ==
    /\ BringToFrontCalled /\ ret.a >= 1
    /\ queue[1] = ret.idx
    /\ firstTry[ret.idx] = "wrong"

\* C12: BringToFront(target) leaves the whole Session state, queue order
\* included, unchanged when target is negative, target >= len(questions) or
\* completed[target] is true.
C12_SkippedJumpChangesNothing ==
    [][(/\ ret'.op = "BringToFront"
        /\ \/ ret'.idx < 0
           \/ ret'.idx >= Cardinality(Indices)
           \/ completed[ret'.idx]) =>
         UNCHANGED <<Questions, attempted, completed, results, queue,
                     completedCount, attemptedCount>>
      ]_vars

\* BringToFront has just been called on a completed index while others are queued
C12_Witness ==
    /\ BringToFrontCalled
    /\ ret.idx \in Indices
    /\ completed[ret.idx]
    /\ Len(queue) >= 1

\* BringToFront has just been called with an out-of-range target
C12_WitnessOutOfRange ==
    /\ BringToFrontCalled
    /\ ret.idx \notin Indices
    /\ Len(queue) >= 2

\* C13: BringToFront(t) on a queued t yields t followed by the old queue with
\* t deleted, so all other indices keep their relative order; on the index
\* already at the front the queue is unchanged.
C13_OthersKeepOrder ==
    [][(ret'.op = "BringToFront" /\ ret'.idx \in Range(queue)) =>
         /\ queue' = <<ret'.idx>> \o SelectSeq(queue, LAMBDA x : x # ret'.idx)
         /\ queue[1] = ret'.idx => queue' = queue
      ]_vars

\* an index has just been moved to the front of a queue holding two others
C13_Witness ==
    /\ BringToFrontCalled /\ ret.ok /\ ret.a >= 1
    /\ Len(queue) >= 3

\* C14: BringToFront never changes attempted, completed, results or the two
\* counters, nor the length or membership of queue, so Score(), Progress(),
\* AttemptedCount(), Results() and Completed() return the same before and after.
C14_JumpOnlyReorders ==
    [][ret'.op = "BringToFront" =>
         /\ UNCHANGED <<attempted, completed, results, attemptedCount, completedCount>>
         /\ Len(queue') = Len(queue)
         /\ Range(queue') = Range(queue)
         /\ ScoreValue' = ScoreValue
         /\ CompletedValue' = CompletedValue
      ]_vars

\* a jump has just reordered the queue of a session with progress on record
C14_Witness ==
    /\ BringToFrontCalled /\ ret.ok /\ ret.a >= 1
    /\ attemptedCount >= 1
    /\ completedCount >= 1

\* C15: at every reachable state completed[i] implies attempted[i].
C15_CompletedImpliesAttempted ==
    \A i \in Indices : completed[i] => attempted[i]

\* one index is completed while another is attempted but still pending
C15_Witness ==
    /\ \E i \in Indices : completed[i] /\ attempted[i]
    /\ \E j \in Indices : attempted[j] /\ ~completed[j]

\* C16: attemptedCount is the number of indices with attempted[i], completedCount
\* the number with completed[i], neither exceeds len(questions), and Score()'s
\* answered value equals AttemptedCount().
C16_CountersMirrorFlags ==
    /\ attemptedCount = Cardinality({ i \in Indices : attempted[i] })
    /\ completedCount = Cardinality({ i \in Indices : completed[i] })
    /\ attemptedCount <= Cardinality(Indices)
    /\ completedCount <= Cardinality(Indices)
    /\ ScoreValue.answered = attemptedCount
    /\ ret.op = "AttemptedCount" => ret.a = Cardinality({ i \in Indices : attempted[i] })
    /\ ret.op = "Score" => ret.b = attemptedCount

\* AttemptedCount() has just returned 2 with one index completed
C16_Witness ==
    /\ ret.op = "AttemptedCount" /\ ret.a = 2
    /\ completedCount = 1

\* C17: attempted[i] and completed[i] never go back to false, the two counters
\* and Score()'s answered value never decrease, and one step raises each
\* counter by at most one.
C17_FlagsAndCountersMonotonic ==
    [][/\ \A i \in Indices : (attempted[i] => attempted'[i]) /\ (completed[i] => completed'[i])
       /\ attemptedCount' \in {attemptedCount, attemptedCount + 1}
       /\ completedCount' \in {completedCount, completedCount + 1}
       /\ ScoreValue'.answered >= ScoreValue.answered
      ]_vars

\* a repeat Answer on an already attempted index has just completed it
C17_Witness ==
    /\ AnswerReturned /\ ret.res.Correct
    /\ firstTry[ret.idx] = "wrong"
    /\ attemptedCount >= 2

\* C18 as stated: attemptedCount equals len(questions) only if every question
\* was answered correctly on its first attempt.
C18_AllAttemptedOnlyIfAllFirstRight ==
    attemptedCount = Cardinality(Indices) => \A i \in Indices : firstTry[i] = "right"

\* C18 as amended: attemptedCount equals len(questions) only if every question
\* has been answered at least once, whatever the grade of its first attempt.
C18_AllAttemptedOnlyIfAllAnswered ==
    attemptedCount = Cardinality(Indices) => \A i \in Indices : firstTry[i] # "none"

\* every question has been attempted, one of them incorrectly at first
C18_Witness ==
    /\ Cardinality(Indices) >= 2
    /\ attemptedCount = Cardinality(Indices)
    /\ \E i \in Indices : firstTry[i] = "wrong"
    /\ \E i \in Indices : firstTry[i] = "right"

\* the state a caller may see: the Session invariants, and every attempted
\* index with its first-attempt result stored and counted
SessionConsistent ==
    /\ \A a, b \in 1..Len(queue) : a # b => queue[a] # queue[b]
    /\ Range(queue) \cap { i \in Indices : completed[i] } = {}
    /\ Range(queue) \cup { i \in Indices : completed[i] } = Indices
    /\ attemptedCount = Cardinality({ i \in Indices : attempted[i] })
    /\ completedCount = Cardinality({ i \in Indices : completed[i] })
    /\ \A i \in Indices :
         /\ attempted[i] <=> firstTry[i] # "none"
         /\ attempted[i] => (results[i].Correct <=> firstTry[i] = "right")
         /\ ~attempted[i] => results[i] = ZeroResult

JustEntered(t) == pc[t] \in {"a_deq", "b_move", "read"}

\* C19: every public Session method is atomic under the one lock: at most one
\* caller is inside a method; a call that returns leaves the state that the
\* same call, run alone, produces from the state it found on entry, so any
\* interleaving equals the calls in lock order; and every caller that has
\* entered a method (a reader about to read in particular) finds the Session
\* invariants intact and attempted[i] never set without results[i] and
\* attemptedCount updated.
C19_MethodsAtomicUnderLock ==
    [][/\ Cardinality({ t \in Threads : pc'[t] # "idle" }) <= 1
       /\ \A t \in Threads : pc'[t] # "idle" => mu' = t
       /\ \A t \in Threads : JustEntered(t)' => SessionConsistent'
       /\ (\A t \in Threads : pc'[t] = "idle") => SessionConsistent'
       /\ \A t \in Threads : (pc[t] # "idle" /\ pc'[t] = "idle") => SessRec' = SeqEffect(loc[t])
      ]_vars

\* one caller is between s.attempted[idx] = true and s.attemptedCount++ while
\* another caller is outside, wanting in
C19_Witness ==
    \E t, u \in Threads :
        /\ t # u
        /\ pc[t] = "a_attcnt"
        /\ pc[u] = "idle"
        /\ attempted[loc[t].idx]
        /\ attemptedCount < Cardinality({ i \in Indices : attempted[i] })
        /\ completedCount >= 1

\* C20: when the CLI is interrupted after at least one question was attempted,
\* the partial summary's answered and correct counts equal Score()'s
\* (answered, score) and its review rows are exactly the attempted questions.
C20_PartialSummaryMatchesScore ==
    hpc = "printed" =>
        /\ summary.answered = ScoreValue.answered
        /\ summary.score = ScoreValue.score
        /\ Range(summary.rows) = { i \in Indices : attempted[i] }

\* C24: NewSession(questions) yields a queue that is a permutation of
\* 0..len(questions)-1, attempted, completed and results all zero-valued and
\* both counters 0; with zero questions the session is finished from the start:
\* Current returns ok = false and Completed returns true.
C24_NewSessionState ==
    /\ ret.op = "NewSession" =>
          /\ Len(queue) = Cardinality(Indices)
          /\ Range(queue) = 0..(Cardinality(Indices) - 1)
          /\ \A i \in Indices : ~attempted[i] /\ ~completed[i] /\ results[i] = ZeroResult
          /\ completedCount = 0
          /\ attemptedCount = 0
    /\ Cardinality(Indices) = 0 =>
          /\ ~CurrentOk
          /\ CompletedValue
          /\ ret.op = "Current" => (~ret.ok /\ ret.idx = -1)
          /\ ret.op = "Completed" => ret.ok

\* a session has just been built with a queue that is not in index order
C24_Witness ==
    /\ ret.op = "NewSession"
    /\ Len(queue) >= 2
    /\ queue[1] # 0

\* Completed() has just returned true on a session built over no questions
C24_WitnessEmpty ==
    /\ Cardinality(Indices) = 0
    /\ ret.op = "Completed" /\ ret.ok

\* C26: a successful Answer returns the Result of the attempt just made, not
\* the stored first-attempt result: a repeat attempt that is correct returns
\* correct = true, sets completed[idx] and raises completedCount by one, while
\* results[idx] keeps the earlier incorrect first-attempt value.
C26_ReturnsThisAttempt ==
    [][(ret'.op = "Answer" /\ Len(queue) # 0) =>
         /\ ret'.err = ""
         /\ ret'.res.Correct <=> EqualFold(TrimSpace(ret'.arg), Questions[queue[1]])
         /\ (attempted[queue[1]] /\ EqualFold(TrimSpace(ret'.arg), Questions[queue[1]])) =>
               /\ ret'.res.Correct
               /\ ~completed[queue[1]] /\ completed'[queue[1]]
               /\ completedCount' = completedCount + 1
               /\ results'[queue[1]] = results[queue[1]]
               /\ ~results'[queue[1]].Correct
               /\ ret'.res # results'[queue[1]]
      ]_vars

\* a correct repeat attempt has just finished the quiz, the stored result still incorrect
C26_Witness ==
    /\ AnswerReturned /\ ret.res.Correct /\ ret.finished
    /\ completed[ret.idx]
    /\ ~results[ret.idx].Correct
    /\ results[ret.idx].UserAnswer # <<>>

\* C27: an incorrect Answer never finishes the quiz and never marks anything
\* completed: it returns finished = false and leaves completedCount and every
\* completed[i] unchanged.
C27_WrongAnswerCompletesNothing ==
    [][(ret'.op = "Answer" /\ Len(queue) # 0
            /\ ~EqualFold(TrimSpace(ret'.arg), Questions[queue[1]])) =>
         /\ ret'.finished = FALSE
         /\ completedCount' = completedCount
         /\ completed' = completed
      ]_vars

\* the last pending question of a longer quiz has just been answered incorrectly
C27_Witness ==
    /\ AnswerReturned /\ ~ret.res.Correct /\ ~ret.finished
    /\ Cardinality(Indices) >= 2
    /\ completedCount = Cardinality(Indices) - 1
    /\ queue = <<ret.idx>>

\* C28: the index at the front of the queue is never completed, so Answer
\* never dequeues a completed index: a repeat answer on a completed index does
\* not occur, and every correct Answer raises completedCount by exactly one.
C28_FrontNeverCompleted ==
    [][/\ Len(queue) # 0 => ~completed[queue[1]]
       /\ Len(queue') # 0 => ~completed'[queue'[1]]
       /\ (ret'.op = "Answer" /\ Len(queue) # 0) =>
             /\ ~completed[ret'.idx]
             /\ ret'.res.Correct => completedCount' = completedCount + 1
      ]_vars

\* a second index has just been completed while another is still queued
C28_Witness ==
    /\ AnswerReturned /\ ret.res.Correct
    /\ completedCount >= 2
    /\ Len(queue) >= 1

\* C29: from a fresh session over n questions the session is finished exactly
\* when n + w successful Answer calls have been made, w being the number of
\* incorrect ones among them, whatever BringToFront calls come in between; with
\* every answer correct it is finished after exactly n calls, and then Score()
\* and Progress() both return (n, n).
C29_FinishedAfterNPlusWrong ==
    /\ Len(queue) = 0 <=> calls = Cardinality(Indices) + wrongs
    /\ calls <= Cardinality(Indices) + wrongs
    /\ (Len(queue) = 0 /\ wrongs = 0) =>
          /\ calls = Cardinality(Indices)
          /\ ret.op = "Score" =>
                (ret.a = Cardinality(Indices) /\ ret.b = Cardinality(Indices))
          /\ ret.op = "Progress" =>
                (ret.a = Cardinality(Indices) /\ ret.b = Cardinality(Indices))

\* Progress() has just returned (n, n) on a quiz finished after MaxWrong incorrect answers
C29_Witness ==
    /\ Len(queue) = 0
    /\ Cardinality(Indices) >= 2
    /\ wrongs = MaxWrong
    /\ calls = Cardinality(Indices) + MaxWrong
    /\ ret.op = "Progress" /\ ret.a = Cardinality(Indices)

\* Score() has just returned (n, n) after n correct answers
C29_WitnessAllCorrect ==
    /\ Len(queue) = 0
    /\ Cardinality(Indices) >= 2
    /\ wrongs = 0
    /\ calls = Cardinality(Indices)
    /\ ret.op = "Score" /\ ret.a = Cardinality(Indices) /\ ret.b = Cardinality(Indices)

\* C21: Answer with empty or whitespace-only input is not an error: it returns
\* no error, records userAnswer as empty, is graded incorrect whatever the
\* current question's answer key is, and requeues the index at the back.
C21_EmptyInputIsIncorrect ==
    [][(ret'.op = "Answer" /\ Len(queue) # 0 /\ TrimSpace(ret'.arg) = <<>>) =>
         /\ ret'.err = ""
         /\ ret'.res.UserAnswer = <<>>
         /\ ~ret'.res.Correct
         /\ firstTry[queue[1]] = "none" => results'[queue[1]].UserAnswer = <<>>
         /\ queue' = Append(Tail(queue), queue[1])
      ]_vars

\* C22: Answer grades a submission correct iff the trimmed raw answer, as a
\* whole string and without regard to case, equals the current question's
\* answer key, while the userAnswer it returns and records is the uppercased
\* first character of the trimmed input (empty for empty input).
C22_WholeStringGradeFirstCharRecorded ==
    [][(ret'.op = "Answer" /\ Len(queue) # 0) =>
         LET t == TrimSpace(ret'.arg)
             first == IF t = <<>> THEN <<>> ELSE <<ToUpperRune(t[1])>>
         IN  /\ ret'.res.Correct <=> EqualFold(t, Questions[queue[1]])
             /\ ret'.res.UserAnswer = first
             /\ firstTry[queue[1]] = "none" => results'[queue[1]].UserAnswer = first
      ]_vars

SameFirst(k, l) == k # <<>> /\ l # <<>> /\ k[1] = l[1]

\* C23: only the first character of a question's answer field is used when
\* grading: a question set that differs from the session's only in the
\* characters after the first character of an answer field grades every
\* submission as the session does.
C23_OnlyFirstCharOfKeyUsed ==
    [][(ret'.op = "Answer" /\ Len(queue) # 0) =>
         \A other \in Keys :
             SameFirst(other, Questions[queue[1]]) =>
                 Grade(ret'.arg, other) = ret'.res.Correct
      ]_vars

\* a step of client c's handler
HandlerStep(c) == req'[c] # req[c]

\* client c's handler of the given kind, at the given place, writes its response
Responds(c, kind, at) ==
    /\ req[c].kind = kind
    /\ req[c].at = at
    /\ req'[c].at = "idle"

\* C25: a reset makes the server point to a Session exactly as NewSession builds
\* it over the server's questions, which is another object than any Session a
\* request in flight holds, and it leaves every such Session as it was; a state
\* request that reads the Session a reset installed, before any call has changed
\* it, reports finished = false, completed = 0 and attempted = 0.
C25_ResetReplacesWholesale ==
    [][ /\ \A c \in Clients :
             Responds(c, "reset", "swap") =>
               /\ \E perm \in Perms(Cardinality(DOMAIN WebQuestions)) :
                    heap'[srvSession'] = FreshSession(WebQuestions, perm)
               /\ \A d \in Clients :
                    req[d].s # 0 =>
                      /\ srvSession' # req[d].s
                      /\ heap'[req[d].s] = heap[req[d].s]
        /\ \A c \in Observed :
             ( /\ req[c].kind = "state"
               /\ req[c].at = "current"
               /\ req[c].s = resetTo
               /\ HandlerStep(c) ) =>
               /\ req'[c].at = "idle"
               /\ ~StateResponse(c).finished
               /\ StateResponse(c).completed = 0
               /\ StateResponse(c).attempted = 0
      ]_vars

\* a state request is about to report on the Session the last reset installed,
\* while another request still holds the discarded Session, which has progress
C25_Witness ==
    /\ req[1].kind = "state"
    /\ req[1].at = "current"
    /\ req[1].s = resetTo
    /\ \E d \in Clients :
         /\ req[d].s \notin {0, srvSession}
         /\ heap[req[d].s].completedCount >= 1
         /\ heap[req[d].s].attemptedCount >= 1

\* C30: the question handleAnswer peeked with Current, whose key the response
\* reports as correctAnswer, is the question its Answer call graded, and the
\* completed and attempted counts of the response are the ones that Answer left,
\* whatever other requests run meanwhile.
C30_AnswerRequestAtomic ==
    [][ \A c \in Observed :
          Responds(c, "answer", "attempted") =>
            /\ AnswerResponse(c).graded = AnswerResponse(c).question
            /\ AnswerResponse(c).completed = AnswerResponse(c).after[1]
            /\ AnswerResponse(c).attempted = AnswerResponse(c).after[2]
      ]_vars

\* C37: at every reachable state results[i].Correct implies completed[i], so
\* Score()'s score <= completedCount <= attemptedCount, and an index never
\* attempted is in the queue with results[i] the zero Result.
C37_CorrectResultImpliesCompleted ==
    /\ \A i \in Indices : results[i].Correct => completed[i]
    /\ ScoreValue.score <= completedCount
    /\ completedCount <= attemptedCount
    /\ ret.op = "Score" => ret.a <= completedCount
    /\ \A i \in Indices :
         ~attempted[i] => i \in QueueSet /\ results[i] = ZeroResult

\* Score() has just returned a score below completedCount: one index was
\* completed after a wrong first attempt, another at once, a third is untouched
C37_Witness ==
    /\ ret.op = "Score" /\ ret.a < completedCount
    /\ \E i \in Indices : completed[i] /\ ~results[i].Correct
    /\ \E i \in Indices : completed[i] /\ results[i].Correct
    /\ \E i \in Indices : ~attempted[i]

\* C39: the queue always holds len(questions) - completedCount indices, and when
\* it is empty attemptedCount = completedCount = len(questions) and Score()'s
\* answered is len(questions).
C39_FinishedMeansAllAttempted ==
    /\ Len(queue) = Cardinality(Indices) - completedCount
    /\ Len(queue) = 0 =>
         /\ attemptedCount = Cardinality(Indices)
         /\ completedCount = Cardinality(Indices)
         /\ ScoreValue.answered = Cardinality(Indices)
         /\ ret.op = "Score" => ret.b = Cardinality(Indices)
    /\ (ret.op = "Answer" /\ ret.finished) => attemptedCount = Cardinality(Indices)

\* Score() has just returned answered = 3 on a finished quiz of three questions,
\* one of them answered wrongly at first
C39_Witness ==
    /\ Len(queue) = 0
    /\ Cardinality(Indices) = 3
    /\ ret.op = "Score" /\ ret.b = 3 /\ ret.a = 2

\* i stands before j in q
Before(q, i, j) == IndexOf(q, i) # -1 /\ IndexOf(q, j) # -1 /\ IndexOf(q, i) < IndexOf(q, j)

\* C38: with no BringToFront call, an index at 0-based position p is the Current
\* index after exactly p further successful Answer calls, and an Answer leaves
\* the other queued indices in the order they had, with the one it requeues
\* behind them all.
C38_FifoWithoutJumps ==
    /\ [](\A i \in Indices : due[i] = 0 <=> (Len(queue) # 0 /\ queue[1] = i))
    /\ []((ret.op = "Current" /\ ret.ok) => due[ret.idx] = 0)
    /\ [][ \A i, j \in Indices :
             (Before(queue, i, j) /\ i # queue[1] /\ IndexOf(queue', j) # -1)
               => Before(queue', i, j)
         ]_vars

\* Current() has just returned an index that was answered wrongly, requeued
\* behind two others, and came up again after they were served
C38_Witness ==
    /\ ret.op = "Current" /\ ret.ok
    /\ firstTry[ret.idx] = "wrong"
    /\ due[ret.idx] = 0
    /\ Len(queue) = 3
    /\ \E j \in Indices : j # ret.idx /\ firstTry[j] = "wrong"

\* C36: runCLI calls Answer only where its last Current() returned ok and the
\* queue is still non-empty, so Answer never returns the "quiz already
\* completed" error; it leaves the loop when Answer returns finished; and the
\* interrupt handler calls Score and Results only, which write nothing.
C36_CliNeverAnswersFinished ==
    /\ [](cpc.at \in {"progress", "prompt"} => Len(queue) # 0)
    /\ [](ret.op = "Answer" => ret.err = "")
    /\ [][ /\ (cpc.at = "prompt" /\ cpc' # cpc /\ ret'.op = "Answer") =>
                /\ Len(queue) # 0
                /\ ret'.err = ""
                /\ ret'.finished => cpc'.at = "score"
           /\ hpc' # hpc =>
                /\ ret'.op \in {"Score", "Results"}
                /\ UNCHANGED sess
         ]_vars

\* runCLI's Answer has just returned finished and the loop is left, after the
\* interrupt handler had read the score of the quiz in progress
C36_Witness ==
    /\ ret.op = "Answer" /\ ret.finished /\ ret.err = ""
    /\ cpc.at = "score"
    /\ hpc = "scored"
    /\ Cardinality(Indices) >= 2

\* the places of the lines of the given kind in what printSummary printed
LinesOf(kind) == { k \in 1..Len(summary.lines) : summary.lines[k].kind = kind }

\* C32: whenever printSummary has printed a review of one or more questions,
\* the grade line is printed once, every review row stands on a line before it,
\* and no line other than blank ones follows it.
C32_GradeLineLast ==
    (summary # NoSummary /\ summary.answered >= 1) =>
        /\ Cardinality(LinesOf("grade")) = 1
        /\ \A g \in LinesOf("grade") :
             /\ \A k \in 1..Len(summary.lines) :
                  k > g => summary.lines[k].kind = "blank"
             /\ \A i \in 0..(summary.answered - 1) :
                  \E k \in LinesOf("rows") : k < g /\ i \in Range(summary.lines[k].cells)
             /\ \A k \in LinesOf("rows") \cup LinesOf("header") : k < g

\* a review of three questions was printed two rows to the line: two review
\* lines, then the grade
C32_Witness ==
    /\ summary.answered = 3
    /\ Cardinality(LinesOf("rows")) = 2
    /\ \E k \in LinesOf("rows") : Len(summary.lines[k].cells) = 2
    /\ summary.lines[Len(summary.lines)].kind = "grade"

\* the places a handler of the given kind can still pass, in order
Path(kind) ==
    IF kind = "state" THEN <<"load", "progress", "attempted", "current", "sumload", "score", "results">>
    ELSE IF kind = "summary" THEN <<"sumload", "score", "results">>
    ELSE IF kind = "answer" THEN <<"method", "load", "current", "answer", "progress", "attempted">>
    ELSE IF kind = "reset" THEN <<"method", "swap">>
    ELSE <<"method", "term", "load", "completed", "bring">>

\* Lock() calls and steps a request has ahead of it at most
Ahead(r) ==
    IF r.at = "idle" THEN 0
    ELSE 2 * (Len(Path(r.kind)) - IndexOf(Path(r.kind), r.at)) + (IF r.holds = "" THEN 1 ELSE 0)

\* some step of c's own is possible
CanRun(c) == ENABLED (Acquire(c) \/ (Locked(c) /\ Handler(c)))

\* d holds the mutex c waits for
Blocks(d, c) ==
    /\ d # c
    /\ req[c].holds = ""
    /\ Needs(c) # ""
    /\ req[d].holds = Needs(c)
    /\ Needs(c) = "session" => req[d].s = req[c].s

\* C33: no interleaving of the handlers deadlocks.  Whoever holds Server.mu is
\* inside a section that loads or replaces s.session, and whoever holds a
\* Session's mutex is inside one method of that Session, so nobody waits for a
\* mutex while holding one; each mutex has one holder at most; every request in
\* flight can take a step, or waits for a mutex whose holder can; and every step
\* brings its request nearer to its response.
C33_HandlersNeverDeadlock ==
    /\ [](\A c \in Clients : req[c].holds # "" => req[c].holds = Needs(c))
    /\ [](\A c, d \in Clients :
            (c # d /\ req[c].holds # "" /\ req[c].holds = req[d].holds) =>
               (req[c].holds = "session" /\ req[c].s # req[d].s))
    /\ [](\A c \in Clients :
            req[c].at # "idle" =>
               \/ CanRun(c)
               \/ \E d \in Clients : Blocks(d, c) /\ CanRun(d))
    /\ [][ \A c \in Clients :
             (HandlerStep(c) /\ req[c].at # "idle") => Ahead(req'[c]) < Ahead(req[c])
         ]_vars

\* an answer request waits to call Answer on a Session in progress whose mutex
\* another answer request holds
C33_Witness ==
    \E c, d \in Clients :
        /\ Blocks(d, c)
        /\ req[c].kind = "answer" /\ req[c].at = "answer"
        /\ req[d].kind = "answer" /\ req[d].holds = "session"
        /\ heap[req[c].s].attemptedCount >= 1

\* the session pointer and every Session are as they were (a Session nobody
\* points to any more may be gone)
NothingWritten ==
    /\ srvSession' = srvSession
    /\ heap'[srvSession] = heap[srvSession]
    /\ \A k \in SessionIds : heap'[k] \in {heap[k], NoSnap}

\* no question matches the term
NoMatch(term) ==
    /\ ~(term.numeric /\ term.num \in 1..Cardinality(DOMAIN WebQuestions))
    /\ term.hits = {}

\* C35: a request that is turned away changes neither the session pointer nor
\* any Session: an answer, reset or jump request that is not a POST, an answer
\* or jump request whose body does not decode, a jump with an empty term or a
\* term that matches nothing, and an answer or jump on a finished session.  All
\* of them but an Answer call that finds the queue empty end the request at once.
C35_RejectedRequestsChangeNothing ==
    [][ \A c \in Clients :
          /\ (\E m \in Methods \ {"POST"} : CheckMethod(c, m)) =>
                (req'[c].at = "idle" /\ NothingWritten)
          /\ (\E b \in JumpBodies : (~b.ok \/ b.term.empty) /\ JumpTerm(c, b)) =>
                (req'[c].at = "idle" /\ NothingWritten)
          /\ (req[c].kind = "answer" /\ LoadSession(c, FALSE)) =>
                (req'[c].at = "idle" /\ NothingWritten)
          /\ (AnswerCurrent(c) /\ Len(heap[req[c].s].queue) = 0) =>
                (req'[c].at = "idle" /\ NothingWritten)
          /\ (\E raw \in WebAnswers : AnswerAnswer(c, raw) /\ Len(heap[req[c].s].queue) = 0) =>
                NothingWritten
          /\ (\E term \in JumpTerms :
                /\ JumpCompleted(c, term)
                /\ Len(heap[req[c].s].queue) = 0 \/ NoMatch(term)) =>
                (req'[c].at = "idle" /\ NothingWritten)
      ]_vars

\* an answer request peeked a question, another request then finished the quiz,
\* and the Answer call it is about to make will find the queue empty
C35_Witness ==
    \E c \in Clients :
        /\ req[c].kind = "answer" /\ req[c].at = "answer"
        /\ req[c].s = srvSession
        /\ Len(heap[req[c].s].queue) = 0
        /\ heap[req[c].s].completedCount = Cardinality(DOMAIN WebQuestions)

\* C31: when a jump responds found = true with index k, question k - 1 is the
\* current question of the server's session right after it.
C31_FoundJumpIsCurrent ==
    [][ \A c \in Clients :
          (Responds(c, "jump", "bring") /\ req[c].s = srvSession) =>
             /\ Len(heap'[srvSession'].queue) # 0
             /\ heap'[srvSession'].queue[1] = req[c].q
      ]_vars

\* C34: a state response that is not finished reports remaining > 0; a finished
\* one reports remaining = 0, and the summary in it is computed from the Session
\* the progress counts were read from.
C34_StateResponseIsSnapshot ==
    [][ \A c \in Observed :
          /\ Responds(c, "state", "current") =>
               StateResponse(c).completed < Cardinality(DOMAIN WebQuestions)
          /\ Responds(c, "state", "results") =>
               /\ SummaryResponse(c).finished
               /\ SummaryResponse(c).completed = Cardinality(DOMAIN WebQuestions)
               /\ req[c].same
      ]_vars

TypeOK ==
    /\ queue \in Seq(Indices)
    /\ attempted \in [Indices -> BOOLEAN]
    /\ completed \in [Indices -> BOOLEAN]
    /\ completedCount \in 0..MaxQuestions
    /\ attemptedCount \in 0..MaxQuestions

====
